---- MODULE Spec2Model ----
(***************************************************************************)
(* Nonlinear conjugate gradient solver of argmin                           *)
(* (src/argmin/src/solver/conjugategradient/nonlinear_cg.rs).              *)
(*                                                                         *)
(* The solver struct is the variable `solver`; the operator wrapper, the   *)
(* iteration state and the value returned by the last call are `op`,       *)
(* `state` and `ret`.  Every method is one action; its body is the         *)
(* composition, in source order, of one operator per statement acting on   *)
(* a frame (the struct, the arguments and the locals), so that an early    *)
(* return (`?`) or a panic (`unwrap` on None, `%` by zero) leaves the      *)
(* frame as the statements before it made it.                              *)
(*                                                                         *)
(* Parameters and gradients are vectors of two integers; a float F is      *)
(* NaN, an infinity or a rational.                                         *)
(***************************************************************************)
EXTENDS Integers, Sequences, FiniteSets, TLC

VARIABLES solver, op, state, ret, oplog, loc

vars == <<solver, op, state, ret, oplog, loc>>

(* ------------------------------ bounds -------------------------------- *)

\* Iterations the driver runs (next_iter is called with iter = 0 .. MaxIter-1).
MaxIter == 4

(* ------------------------------ Option -------------------------------- *)

None == <<>>

Some(x) == <<x>>

Unwrap(o) == o[1]

(* ------------------------------ floats -------------------------------- *)

NaN == [cls |-> "nan", num |-> 0, den |-> 1]

Infinity == [cls |-> "inf", num |-> 1, den |-> 1]

Rat(n, d) == [cls |-> "fin", num |-> n, den |-> d]

FromInt(n) == Rat(n, 1)

Abs(n) == IF n < 0 THEN -n ELSE n

Sgn(n) == IF n < 0 THEN -1 ELSE IF n > 0 THEN 1 ELSE 0

\* a / b for a >= 0 and b >= 0: 0/0 is NaN, a/0 is +inf.
FDiv(a, b) ==
    IF b = 0 THEN (IF a = 0 THEN NaN ELSE Infinity) ELSE Rat(a, b)

\* x >= v on floats with positive denominators: false when either is NaN.
FGe(x, v) ==
    CASE x.cls = "nan" \/ v.cls = "nan" -> FALSE
      [] x.cls = "inf" -> TRUE
      [] v.cls = "inf" -> FALSE
      [] OTHER -> x.num * v.den >= v.num * x.den

(* --------------------------- vector algebra --------------------------- *)

Zero == <<0, 0>>

Mul(a, s) == <<a[1] * s, a[2] * s>>

Add(a, b) == <<a[1] + b[1], a[2] + b[2]>>

Sub(a, b) == <<a[1] - b[1], a[2] - b[2]>>

Dot(a, b) == a[1] * b[1] + a[2] * b[2]

\* norm().powi(2), in exact arithmetic
NormPowi2(a) == Dot(a, a)

\* p.mul(&self.beta): beta is integral whenever the solver multiplies by it
MulF(a, s) == Mul(a, s.num)

(* ------------------------- the objective oracle ----------------------- *)

\* The objectives a caller may supply:
\*   "bowl"    f(x) = x1^2 - 2 x1 + 2 x2^2, minimal at (1, 0);
\*   "saddle"  f(x) = x1^2 + 2 x1 x2 + x2, without a stationary point on the grid.
Objectives == {"bowl", "saddle"}

Cost(o, x) ==
    IF o = "bowl" THEN x[1] * x[1] - 2 * x[1] + 2 * x[2] * x[2]
    ELSE x[1] * x[1] + 2 * x[1] * x[2] + x[2]

Gradient(o, x) ==
    IF o = "bowl" THEN <<2 * x[1] - 2, 4 * x[2]>>
    ELSE <<2 * x[1] + 2 * x[2], 2 * x[1] + 1>>

X0 == {<<1, 0>>, <<2, 2>>, <<0, -2>>}

(* --------------------------- the beta rules --------------------------- *)

BetaMethods == {"PolakRibiere", "HestenesStiefel"}

\* update(dfk, dfk1, pk): stateless; integer-valued forms of the rules
\* (the sign of the Polak-Ribiere numerator; that sign times the sign of the
\* Hestenes-Stiefel denominator).
BetaUpdate(m, dfk, dfk1, pk) ==
    LET y == Sub(dfk1, dfk)
    IN  IF m = "PolakRibiere"
        THEN FromInt(Sgn(Dot(dfk1, y)))
        ELSE FromInt(Sgn(Dot(dfk1, y)) * Sgn(Dot(y, pk)))

(* ------------------------------ inputs -------------------------------- *)

\* std::u64::MAX. TLC's integers are 32 bits wide and the largest of them stands
\* for it: every iteration index of a run is below it, as it is below 2^64 - 1.
U64_MAX == 2147483647

IterArgs == {0, 1, 2, 3}

OrthArgs == {Rat(1, 10), Rat(1, 1)}

\* What a line search run may do: the step length it settles on and its
\* <<cost evaluations, gradient evaluations>>.
LsRuns == {[alpha |-> 0, evals |-> <<1, 1>>], [alpha |-> 1, evals |-> <<3, 2>>]}

InitFails == {"none", "cost", "grad"}

NextIterFails == {"none", "grad_xk", "linesearch", "grad_xk1", "cost_xk1"}

(* ------------------------- operator wrapper --------------------------- *)

OpWrapperNew(o) == [op |-> Some(o), cost_func_count |-> 0, grad_func_count |-> 0]

\* OpWrapper::take_op
TakeOp(o) == [o EXCEPT !.op = None]

\* OpWrapper::consume_op: the operator is put back and the counts are added
ConsumeOp(o, other) ==
    [op |-> other.op,
     cost_func_count |-> o.cost_func_count + other.cost_func_count,
     grad_func_count |-> o.grad_func_count + other.grad_func_count]

CountApply(o) == [o EXCEPT !.cost_func_count = @ + 1]

CountGradient(o) == [o EXCEPT !.grad_func_count = @ + 1]

(* ------------------------------ frames -------------------------------- *)

NoKV == [beta |-> NaN, restart_iter |-> FALSE, restart_orthogonality |-> FALSE]

NoData == [param |-> None, cost |-> NaN, grad |-> None]

Loc0 ==
    [p |-> Zero, xk |-> Zero, grad |-> Zero, cur_cost |-> NaN,
     line_op |-> [op |-> None, cost_func_count |-> 0, grad_func_count |-> 0],
     xk1 |-> Zero, new_grad |-> Zero,
     ratio |-> None, restart_orthogonality |-> FALSE, restart_iter |-> FALSE,
     cost |-> NaN]

Frame(s, o, st, in) ==
    [solver |-> s, op |-> o, state |-> st, in |-> in, oplog |-> <<>>,
     loc |-> Loc0, res |-> "run", err |-> "none", kv |-> NoKV, data |-> NoData]

Panic(f) == [f EXCEPT !.res = "panic"]

Err(f, kind) == [f EXCEPT !.res = "Err", !.err = kind]

\* The operator the wrapper holds.
Oracle(f) == Unwrap(f.op.op)

Log(f, what, at) == [f EXCEPT !.oplog = Append(@, [f |-> what, at |-> at])]

(* ------------------------------- new ---------------------------------- *)

\* NonlinearConjugateGradient::new(linesearch, beta_method)
new(beta_method) ==
    [p |-> None,
     beta |-> NaN,
     linesearch |-> [search_direction |-> None],
     beta_method |-> beta_method,
     restart_iter |-> U64_MAX,
     restart_orthogonality |-> None]

\* A setter that only ever lowers the restart interval.
MutRestartItersLowers(s, iters) ==
    [s EXCEPT !.restart_iter = IF iters < @ THEN iters ELSE @]

\* restart_iters(mut self, iters)
restart_iters(s, iters) == [s EXCEPT !.restart_iter = iters]

\* restart_orthogonality(mut self, v)
restart_orthogonality(s, v) == [s EXCEPT !.restart_orthogonality = Some(v)]

(* ------------------------------- init --------------------------------- *)

\* let param = state.take_param().unwrap();
InitTakeParam(f) ==
    IF f.state.param = None THEN Panic(f)
    ELSE [f EXCEPT !.loc.xk = Unwrap(f.state.param), !.state.param = None]

\* let cost = op.apply(&param)?;
InitCost(f) ==
    LET g == Log([f EXCEPT !.op = CountApply(@)], "apply", f.loc.xk)
    IN  IF f.in.fail = "cost" THEN Err(g, "OracleFailure")
        ELSE [g EXCEPT !.loc.cost = FromInt(Cost(Oracle(f), f.loc.xk))]

\* let grad = op.gradient(&param)?;
InitGradient(f) ==
    LET g == Log([f EXCEPT !.op = CountGradient(@)], "gradient", f.loc.xk)
    IN  IF f.in.fail = "grad" THEN Err(g, "OracleFailure")
        ELSE [g EXCEPT !.loc.grad = Gradient(Oracle(f), f.loc.xk)]

\* self.p = Some(grad.mul(&-1.0));
InitP(f) == [f EXCEPT !.solver.p = Some(Mul(f.loc.grad, -1))]

\* Ok(Some(ArgminIterData::new().param(param).cost(cost).grad(grad)))
InitReturn(f) ==
    [f EXCEPT !.res = "Ok",
              !.data = [param |-> Some(f.loc.xk), cost |-> f.loc.cost,
                        grad |-> Some(f.loc.grad)]]

\* A statement runs only while no earlier one has returned or panicked.
Then(f, Stmt(_)) == IF f.res = "run" THEN Stmt(f) ELSE f

init(f) ==
    Then(Then(Then(Then(Then(f, InitTakeParam), InitCost), InitGradient),
              InitP), InitReturn)

(* ----------------------------- next_iter ------------------------------ *)

\* self.p.take().unwrap() in place of self.p.as_ref().unwrap()
MutReadPTakes(f) ==
    IF f.solver.p = None THEN Panic(f)
    ELSE [f EXCEPT !.loc.p = Unwrap(f.solver.p), !.solver.p = None]

\* let p = self.p.as_ref().unwrap();
ReadP(f) ==
    IF f.solver.p = None THEN Panic(f)
    ELSE [f EXCEPT !.loc.p = Unwrap(f.solver.p)]

\* let xk = state.take_param().unwrap();
TakeParam(f) ==
    IF f.state.param = None THEN Panic(f)
    ELSE [f EXCEPT !.loc.xk = Unwrap(f.state.param), !.state.param = None]

\* The gradient at xk evaluated whether or not the state holds one.
MutTakeGradEvaluates(f) ==
    LET g == Log([f EXCEPT !.op = CountGradient(@), !.state.grad = None],
                 "gradient", f.loc.xk)
    IN  IF f.in.fail = "grad_xk" THEN Err(g, "OracleFailure")
        ELSE [g EXCEPT !.loc.grad = Gradient(Oracle(f), f.loc.xk)]

\* let grad = state.take_grad().map(Result::Ok).unwrap_or_else(|| op.gradient(&xk))?;
TakeGrad(f) ==
    IF f.state.grad # None
    THEN [f EXCEPT !.loc.grad = Unwrap(f.state.grad), !.state.grad = None]
    ELSE LET g == Log([f EXCEPT !.op = CountGradient(@)], "gradient", f.loc.xk)
         IN  IF f.in.fail = "grad_xk" THEN Err(g, "OracleFailure")
             ELSE [g EXCEPT !.loc.grad = Gradient(Oracle(f), f.loc.xk)]

\* let cur_cost = state.get_cost();
GetCost(f) == [f EXCEPT !.loc.cur_cost = f.state.cost]

\* self.linesearch.set_search_direction(p.clone());
SetSearchDirection(f) ==
    [f EXCEPT !.solver.linesearch.search_direction = Some(f.loc.p)]

\* The point a line search run returns: a step of length alpha from xk along
\* the search direction the line search was configured with.
LineSearchPoint(ls, xk, alpha) == Add(xk, Mul(Unwrap(ls.search_direction), alpha))

\* Executor::new(op.take_op().unwrap(), self.linesearch.clone(), xk)
\*     .configure(|config| config.grad(grad.clone()).cost(cur_cost)).ctrlc(false).run()?;
\* The run evaluates the taken operator inside a wrapper of its own.
RunLineSearch(f) ==
    IF f.op.op = None THEN Panic(f)
    ELSE LET line_op == [op |-> f.op.op,
                         cost_func_count |-> f.in.evals[1],
                         grad_func_count |-> f.in.evals[2]]
             g == [Log(f, "linesearch", f.loc.xk) EXCEPT !.op = TakeOp(@)]
         IN  IF f.in.fail = "linesearch" THEN Err(g, "LineSearchFailure")
             ELSE [g EXCEPT !.loc.line_op = line_op,
                            !.loc.xk1 = LineSearchPoint(f.solver.linesearch,
                                                        f.loc.xk, f.in.alpha)]

\* op.consume_op(line_op);
ConsumeLineOp(f) == [f EXCEPT !.op = ConsumeOp(@, f.loc.line_op)]

\* let new_grad = op.gradient(&xk1)?;
NewGradient(f) ==
    LET g == Log([f EXCEPT !.op = CountGradient(@)], "gradient", f.loc.xk1)
    IN  IF f.in.fail = "grad_xk1" THEN Err(g, "OracleFailure")
        ELSE [g EXCEPT !.loc.new_grad = Gradient(Oracle(f), f.loc.xk1)]

\* new_grad.dot(&grad).abs() / new_grad.norm().powi(2)
OrthogonalityRatio(new_grad, grad) ==
    FDiv(Abs(Dot(new_grad, grad)), NormPowi2(new_grad))

\* The threshold compared with > in place of >=.
MutOrthogonalityStrict(ro, new_grad, grad) ==
    IF ro = None THEN FALSE
    ELSE /\ FGe(OrthogonalityRatio(new_grad, grad), Unwrap(ro))
         /\ ~FGe(Unwrap(ro), OrthogonalityRatio(new_grad, grad))

\* match self.restart_orthogonality { Some(v) => ratio >= v, None => false }
RestartOrthogonalityCond(ro, new_grad, grad) ==
    IF ro = None THEN FALSE
    ELSE FGe(OrthogonalityRatio(new_grad, grad), Unwrap(ro))

CheckOrthogonality(f) ==
    [f EXCEPT !.loc.ratio =
                  IF f.solver.restart_orthogonality = None THEN None
                  ELSE Some(OrthogonalityRatio(f.loc.new_grad, f.loc.grad)),
              !.loc.restart_orthogonality =
                  RestartOrthogonalityCond(f.solver.restart_orthogonality,
                                           f.loc.new_grad, f.loc.grad)]

\* The restart test without its guard on iteration 0.
MutRestartIterAtZero(iter, n) == iter % n = 0

\* (state.get_iter() % self.restart_iter == 0) && state.get_iter() != 0
RestartIterCond(iter, n) == (iter % n = 0) /\ iter # 0

\* The remainder by a restart_iter of 0 panics.
CheckIter(f) ==
    IF f.solver.restart_iter = 0 THEN Panic(f)
    ELSE [f EXCEPT !.loc.restart_iter =
                       RestartIterCond(f.state.iter, f.solver.restart_iter)]

\* beta reset on the orthogonality restart only.
MutNewBetaOrthOnly(restart_iter, restart_orth, m, grad, new_grad, p) ==
    IF restart_orth THEN FromInt(0) ELSE BetaUpdate(m, grad, new_grad, p)

\* if restart_iter || restart_orthogonality { 0.0 } else { beta_method.update(..) }
NewBeta(restart_iter, restart_orth, m, grad, new_grad, p) ==
    IF restart_iter \/ restart_orth THEN FromInt(0)
    ELSE BetaUpdate(m, grad, new_grad, p)

UpdateBeta(f) ==
    [f EXCEPT !.solver.beta =
                  NewBeta(f.loc.restart_iter, f.loc.restart_orthogonality,
                          f.solver.beta_method, f.loc.grad, f.loc.new_grad,
                          f.loc.p),
              !.oplog = Append(@, [f |-> "beta", at |-> f.loc.xk1])]

\* The new gradient added without its sign flipped.
MutNewPKeepsSign(new_grad, p, beta) == Add(new_grad, MulF(p, beta))

\* new_grad.mul(&-1.0).add(&p.mul(&self.beta))
NewP(new_grad, p, beta) == Add(Mul(new_grad, -1), MulF(p, beta))

\* self.p = Some(..);
UpdateP(f) ==
    [f EXCEPT !.solver.p = Some(NewP(f.loc.new_grad, f.loc.p, f.solver.beta))]

\* let cost = op.apply(&xk1)?;
Housekeeping(f) ==
    LET g == Log([f EXCEPT !.op = CountApply(@)], "apply", f.loc.xk1)
    IN  IF f.in.fail = "cost_xk1" THEN Err(g, "OracleFailure")
        ELSE [g EXCEPT !.loc.cost = FromInt(Cost(Oracle(f), f.loc.xk1))]

\* Ok(ArgminIterData::new().param(xk1).cost(cost).grad(new_grad).kv(..))
Return(f) ==
    [f EXCEPT !.res = "Ok",
              !.data = [param |-> Some(f.loc.xk1), cost |-> f.loc.cost,
                        grad |-> Some(f.loc.new_grad)],
              !.kv = [beta |-> f.solver.beta,
                      restart_iter |-> f.loc.restart_iter,
                      restart_orthogonality |-> f.loc.restart_orthogonality]]

next_iter(f) ==
    LET f1 == Then(Then(Then(Then(f, ReadP), TakeParam), TakeGrad), GetCost)
        f2 == Then(Then(Then(f1, SetSearchDirection), RunLineSearch), ConsumeLineOp)
        f3 == Then(Then(Then(f2, NewGradient), CheckOrthogonality), CheckIter)
        f4 == Then(Then(Then(f3, UpdateBeta), UpdateP), Housekeeping)
    IN  Then(f4, Return)

(* ------------------------------ driver -------------------------------- *)

IterStateNew(x0) == [param |-> Some(x0), grad |-> None, cost |-> Infinity, iter |-> 0]

\* The driver stores what a call returned; it may or may not keep the gradient
\* for the next call.
StateUpdate(st, data, keep_grad, inc) ==
    [param |-> data.param,
     grad |-> IF keep_grad THEN data.grad ELSE None,
     cost |-> data.cost,
     iter |-> st.iter + inc]

Returned(f, name) ==
    [call |-> name, arg |-> None, res |-> f.res, err |-> f.err, kv |-> f.kv]

Configured(name, arg) ==
    [call |-> name, arg |-> Some(arg), res |-> "Ok", err |-> "none", kv |-> NoKV]

(* ------------------------------ actions ------------------------------- *)

Init ==
    /\ solver \in {new(m) : m \in BetaMethods}
    /\ op \in {OpWrapperNew(o) : o \in Objectives}
    /\ state \in {IterStateNew(x0) : x0 \in X0}
    /\ ret = [call |-> "new", arg |-> None, res |-> "Ok", err |-> "none",
              kv |-> NoKV]
    /\ oplog = <<>>
    /\ loc = Loc0

\* A call that returned an error or panicked ends the run.
Live == ret.res = "Ok"

\* The setters take the solver by value: they configure it before it is
\* handed to the driver.
SetRestartIters(iters) ==
    /\ Live
    /\ solver.p = None
    /\ solver' = restart_iters(solver, iters)
    /\ ret' = Configured("restart_iters", iters)
    /\ UNCHANGED <<op, state, oplog, loc>>

SetRestartOrthogonality(v) ==
    /\ Live
    /\ solver.p = None
    /\ solver' = restart_orthogonality(solver, v)
    /\ ret' = Configured("restart_orthogonality", v)
    /\ UNCHANGED <<op, state, oplog, loc>>

Finish(f, name, keep_grad, inc) ==
    /\ solver' = f.solver
    /\ op' = f.op
    /\ state' = IF f.res = "Ok" THEN StateUpdate(f.state, f.data, keep_grad, inc)
                ELSE f.state
    /\ ret' = Returned(f, name)
    /\ oplog' = f.oplog
    /\ loc' = f.loc

CallInit(fail, keep_grad) ==
    /\ Live
    /\ solver.p = None
    /\ state.iter = 0
    /\ Finish(init(Frame(solver, op, state,
                         [fail |-> fail, alpha |-> 0, evals |-> <<0, 0>>])),
              "init", keep_grad, 0)

CallNextIter(fail, run, keep_grad) ==
    /\ Live
    /\ state.iter < MaxIter
    /\ Finish(next_iter(Frame(solver, op, state,
                              [fail |-> fail, alpha |-> run.alpha,
                               evals |-> run.evals])),
              "next_iter", keep_grad, 1)

Next ==
    \/ \E iters \in IterArgs : SetRestartIters(iters)
    \/ \E v \in OrthArgs : SetRestartOrthogonality(v)
    \/ \E fail \in InitFails, keep_grad \in BOOLEAN : CallInit(fail, keep_grad)
    \/ \E fail \in NextIterFails, run \in LsRuns, keep_grad \in BOOLEAN :
          CallNextIter(fail, run, keep_grad)

Spec == Init /\ [][Next]_vars

(* A solver configured with restart_iters(1), with or without the           *)
(* orthogonality restart, run by the driver.                                *)

InitSD ==
    /\ solver \in {restart_iters(new(m), 1) : m \in BetaMethods}
                  \cup {restart_orthogonality(restart_iters(new(m), 1), v) :
                            m \in BetaMethods, v \in OrthArgs}
    /\ op \in {OpWrapperNew(o) : o \in Objectives}
    /\ state \in {IterStateNew(x0) : x0 \in X0}
    /\ ret = Configured("restart_iters", 1)
    /\ oplog = <<>>
    /\ loc = Loc0

NextSD ==
    \/ \E fail \in InitFails, keep_grad \in BOOLEAN : CallInit(fail, keep_grad)
    \/ \E fail \in NextIterFails, run \in LsRuns, keep_grad \in BOOLEAN :
          CallNextIter(fail, run, keep_grad)

SpecSD == InitSD /\ [][NextSD]_vars

(* ----------------------------- properties ----------------------------- *)

Neg(a) == Mul(a, -1)

Last(q) == q[Len(q)]

\* A transition in which init returned Ok.
InitOk == ret'.call = "init" /\ ret'.res = "Ok" /\ solver.p = None

\* A transition in which next_iter, called with iter = state.iter, returned Ok.
StepOk == ret'.call = "next_iter" /\ ret'.res = "Ok" /\ state'.iter = state.iter + 1

\* A transition in which next_iter ran the line search.
LineSearchRan ==
    /\ ret'.call = "next_iter"
    /\ \E i \in 1..Len(oplog') : oplog'[i].f = "linesearch"

\* A transition in which next_iter returned an oracle's failure.
StepOracleFailure ==
    ret'.call = "next_iter" /\ ret'.res = "Err" /\ ret'.err = "OracleFailure"

\* The iterate a call starts from and the one a successful call returns.
Xk == Unwrap(state.param)

Xk1 == Unwrap(state'.param)

\* The gradient of the objective the caller's wrapper holds before the call.
Grad(x) == Gradient(Unwrap(op.op), x)

ConfigOf(s) == <<s.restart_iter, s.restart_orthogonality>>

\* The iteration restart of the step with index k under restart interval n.
IterFires(k, n) == k > 0 /\ k % n = 0

\* |<g1, g0>| / ||g1||^2 >= v for a configured threshold v = num/den, stated
\* without the division; it is not met where ||g1||^2 = 0.
RatioMeets(ro, g1, g0) ==
    /\ ro # None
    /\ NormPowi2(g1) # 0
    /\ Abs(Dot(g1, g0)) * Unwrap(ro).den >= Unwrap(ro).num * NormPowi2(g1)

\* The beta of a step from xk to x1: 0 on a restart, else the beta rule's value.
BetaOfStep(s, k, xk, x1) ==
    IF IterFires(k, s.restart_iter)
           \/ RatioMeets(s.restart_orthogonality, Grad(x1), Grad(xk))
    THEN FromInt(0)
    ELSE BetaUpdate(s.beta_method, Grad(xk), Grad(x1), Unwrap(s.p))

\* C1: for N >= 1, the step called with iteration index k emits
\* restart_iter = (k > 0 and k mod N = 0), and where it is true the emitted
\* and the stored beta are exactly 0.
C1_RestartAfterN ==
    [][(StepOk /\ solver.restart_iter >= 1) =>
        /\ ret'.kv.restart_iter
               = (state.iter > 0 /\ state.iter % solver.restart_iter = 0)
        /\ ret'.kv.restart_iter =>
               (ret'.kv.beta = FromInt(0) /\ solver'.beta = FromInt(0))]_vars

C1_Witness ==
    /\ ret.call = "next_iter" /\ ret.res = "Ok"
    /\ solver.restart_iter = 2 /\ state.iter = 3
    /\ ret.kv.restart_iter /\ solver.beta = FromInt(0)

\* C2 as claimed: with restart_iters(1) the direction handed to the line
\* search in every step is the negated gradient at the step's starting iterate.
C2_SteepestDescentEveryStep ==
    [][LineSearchRan =>
        solver'.linesearch.search_direction = Some(Neg(Grad(Xk)))]_vars

\* C2 as amended: with restart_iters(1) the direction handed to the line
\* search is the negated gradient at the starting iterate in every step but
\* the one with index 1; step 0 is never restarted by the iteration count, and
\* step 1 searches along the direction step 0 stored, -g1 + beta0 * p0, with
\* beta0 the beta rule's value unless the orthogonality restart fired.
C2_SteepestDescentButStepOne ==
    [][/\ (LineSearchRan /\ state.iter # 1) =>
              solver'.linesearch.search_direction = Some(Neg(Grad(Xk)))
       /\ (LineSearchRan /\ state.iter = 1) =>
              solver'.linesearch.search_direction = solver.p
       /\ (StepOk /\ state.iter = 0) =>
              /\ ~ret'.kv.restart_iter
              /\ solver'.p = Some(Add(Neg(Grad(Xk1)),
                                      MulF(Unwrap(solver.p), ret'.kv.beta)))
              /\ ~ret'.kv.restart_orthogonality =>
                     ret'.kv.beta = BetaUpdate(solver.beta_method, Grad(Xk),
                                               Grad(Xk1), Unwrap(solver.p))]_vars

\* Step 1 ran its line search along a direction that is not the negated gradient.
C2_Witness ==
    /\ ret.call = "next_iter" /\ ret.res = "Ok" /\ state.iter = 2
    /\ solver.restart_iter = 1
    /\ solver.linesearch.search_direction # Some(Neg(loc.grad))

\* C3 as claimed: when an oracle evaluation fails during next_iter, the
\* direction, beta and the restart configuration are as before the call.
C3_OracleFailureLeavesState ==
    [][StepOracleFailure =>
        /\ solver'.p = solver.p
        /\ solver'.beta = solver.beta
        /\ ConfigOf(solver') = ConfigOf(solver)]_vars

\* C3 as amended: next_iter returns the oracle's failure; when a gradient
\* evaluation (at xk or at xk+1) failed, the direction, beta and the restart
\* configuration are as before the call; when the cost evaluation at xk+1
\* failed, the restart configuration is as before but beta and the direction
\* already hold the step's new values (p = -g(xk+1) + beta * pk).
C3_GradientFailureLeavesState ==
    [][StepOracleFailure =>
        /\ ConfigOf(solver') = ConfigOf(solver)
        /\ Last(oplog').f \in {"gradient", "apply"}
        /\ Last(oplog').f = "gradient" =>
               (solver'.p = solver.p /\ solver'.beta = solver.beta)
        /\ Last(oplog').f = "apply" =>
               /\ solver'.beta = BetaOfStep(solver, state.iter, Xk, Last(oplog').at)
               /\ solver'.p = Some(Add(Neg(Grad(Last(oplog').at)),
                                       MulF(Unwrap(solver.p), solver'.beta)))]_vars


\* The gradient at xk+1 failed after the line search ran.
C3_Witness ==
    /\ ret.call = "next_iter" /\ ret.res = "Err" /\ ret.err = "OracleFailure"
    /\ Len(oplog) >= 2
    /\ Last(oplog).f = "gradient"
    /\ oplog[Len(oplog) - 1].f = "linesearch"
    /\ solver.linesearch.search_direction = solver.p

\* C4: next_iter called on a solver on which init never ran returns an error.
C4_StepBeforeInitReturnsError ==
    (ret.call = "next_iter" /\ solver.p = None) => ret.res = "Err"

\* C5 as claimed: when the threshold is set and the ratio meets it, beta is 0
\* and restart_orthogonality is true; otherwise restart_orthogonality is false
\* and beta is the beta rule's value for (gk, gk+1, pk).
C5_OrthogonalityElseBetaRule ==
    [][StepOk =>
        IF RatioMeets(solver.restart_orthogonality, Grad(Xk1), Grad(Xk))
        THEN ret'.kv.restart_orthogonality /\ ret'.kv.beta = FromInt(0)
        ELSE /\ ~ret'.kv.restart_orthogonality
             /\ ret'.kv.beta = BetaUpdate(solver.beta_method, Grad(Xk),
                                          Grad(Xk1), Unwrap(solver.p))]_vars

\* C5 as amended: when the threshold is set and the ratio meets it, beta is 0
\* and restart_orthogonality is true; otherwise restart_orthogonality is false
\* and beta is the beta rule's value for (gk, gk+1, pk), unless the iteration
\* restart fires in that step, and then beta is 0.
C5_OrthogonalityElseIterElseBetaRule ==
    [][StepOk =>
        /\ ret'.kv.beta = solver'.beta
        /\ IF RatioMeets(solver.restart_orthogonality, Grad(Xk1), Grad(Xk))
           THEN ret'.kv.restart_orthogonality /\ ret'.kv.beta = FromInt(0)
           ELSE /\ ~ret'.kv.restart_orthogonality
                /\ ret'.kv.beta =
                       IF ret'.kv.restart_iter THEN FromInt(0)
                       ELSE BetaUpdate(solver.beta_method, Grad(Xk),
                                       Grad(Xk1), Unwrap(solver.p))]_vars

\* The orthogonality restart alone fired, at a ratio equal to the threshold.
C5_Witness ==
    /\ ret.call = "next_iter" /\ ret.res = "Ok"
    /\ ret.kv.restart_orthogonality /\ ~ret.kv.restart_iter
    /\ solver.restart_orthogonality = Some(Rat(1, 1))
    /\ loc.new_grad = loc.grad /\ loc.grad # Zero

\* C6: after init returns Ok the stored direction is -g0; after every step
\* that returns Ok it is -g(xk+1) when a restart fired in the step and
\* -g(xk+1) + beta * pk otherwise, beta being the emitted value.
C6_Direction ==
    [][/\ InitOk => solver'.p = Some(Neg(Grad(Xk)))
       /\ StepOk =>
              solver'.p =
                  IF ret'.kv.restart_iter \/ ret'.kv.restart_orthogonality
                  THEN Some(Neg(Grad(Xk1)))
                  ELSE Some(Add(Neg(Grad(Xk1)),
                                MulF(Unwrap(solver.p), ret'.kv.beta)))]_vars

\* A step without restart blended the old direction in.
C6_Witness ==
    /\ ret.call = "next_iter" /\ ret.res = "Ok"
    /\ ~ret.kv.restart_iter /\ ~ret.kv.restart_orthogonality
    /\ ret.kv.beta = FromInt(-1)
    /\ solver.p # Some(Neg(loc.new_grad))

\* The oracle calls of a step from xk to x1, in order.
CallsOfStep(cached, xk, x1) ==
    (IF cached THEN <<>> ELSE <<[f |-> "gradient", at |-> xk]>>)
    \o <<[f |-> "linesearch", at |-> xk], [f |-> "gradient", at |-> x1],
         [f |-> "beta", at |-> x1], [f |-> "apply", at |-> x1]>>

\* C7: a step that returns Ok evaluates the gradient at xk once, or not at all
\* when the state held it, then runs the line search, then evaluates the
\* gradient at xk+1 once before beta is updated, then the cost at xk+1 once;
\* the wrapper holds the operator again and its counts have grown by the
\* line search's evaluations plus those calls.
C7_OracleCalls ==
    [][StepOk =>
        LET cached == state.grad # None
            first == IF cached THEN 0 ELSE 1
        IN  /\ oplog' = CallsOfStep(cached, Xk, Xk1)
            /\ op'.op = op.op /\ op.op # None
            /\ op'.grad_func_count
                   = op.grad_func_count + first + loc'.line_op.grad_func_count + 1
            /\ op'.cost_func_count
                   = op.cost_func_count + loc'.line_op.cost_func_count + 1]_vars

\* A step that was handed the gradient ran a line search of 3 + 2 evaluations.
C7_Witness ==
    /\ ret.call = "next_iter" /\ ret.res = "Ok" /\ state.iter = 2
    /\ Len(oplog) = 4
    /\ loc.line_op.cost_func_count = 3 /\ loc.line_op.grad_func_count = 2
    /\ op.grad_func_count >= 6

\* C8: restart_iters sets restart_iter to its argument and restart_orthogonality
\* sets the threshold to its argument; each leaves every other field of the
\* solver alone, no other call changes either, and a new solver holds the
\* defaults: the configuration is the last value passed to each setter.
C8_Setters ==
    /\ \A m \in BetaMethods :
           new(m).restart_iter = U64_MAX /\ new(m).restart_orthogonality = None
    /\ [][/\ ret'.call = "restart_iters" =>
                 /\ solver'.restart_iter = Unwrap(ret'.arg)
                 /\ solver' = [solver EXCEPT !.restart_iter = solver'.restart_iter]
          /\ ret'.call = "restart_orthogonality" =>
                 /\ solver'.restart_orthogonality = ret'.arg
                 /\ solver' = [solver EXCEPT !.restart_orthogonality =
                                                 solver'.restart_orthogonality]
          /\ ret'.call \notin {"restart_iters", "restart_orthogonality"} =>
                 ConfigOf(solver') = ConfigOf(solver)]_vars

\* Both setters have been applied, restart_iters last and to raise the interval.
C8_Witness ==
    /\ ret.call = "restart_iters" /\ ret.arg = Some(2)
    /\ solver.restart_iter = 2
    /\ solver.restart_orthogonality = Some(Rat(1, 10))

\* C9: with the threshold configured and a new gradient of norm 0, the step
\* divides by no zero and its restart_orthogonality is false.
C9_NoDivisionByZero ==
    (/\ ret.call = "next_iter" /\ ret.res = "Ok"
     /\ solver.restart_orthogonality # None
     /\ NormPowi2(Grad(Unwrap(state.param))) = 0)
        => /\ ~ret.kv.restart_orthogonality
           /\ loc.ratio = None \/ Unwrap(loc.ratio).cls = "fin"

\* C10: when the line search fails, the caller's wrapper still holds the
\* operator, with the evaluations the failed run made counted.
C10_OperatorReturnedOnFailure ==
    (ret.call = "next_iter" /\ ret.err = "LineSearchFailure") => op.op # None

====
